---------------------------- MODULE Spec2Model ----------------------------
(***************************************************************************)
(* Workspace discovery and validation of src/cargo/core/workspace.rs.      *)
(*                                                                         *)
(* A path is a sequence of components; the filesystem root "/" is <<>>.    *)
(* A manifest path is its directory followed by "Cargo.toml".  The         *)
(* filesystem `fs` is chosen at Init and never changes; one behaviour is    *)
(* one call of Workspace::new on one entry manifest (Spec), or one call of  *)
(* Workspace::ephemeral on one package (EphemeralSpec).  AccessSpec lets   *)
(* the accessors be called on the workspace Workspace::new returned.        *)
(***************************************************************************)
EXTENDS Naturals, Integers, Sequences, FiniteSets, TLC

VARIABLES
    fs,               \* the manifests on disk: directory -> manifest record
    current_manifest, \* Workspace.current_manifest (the entry)
    packages,         \* Workspace.packages.packages: directory -> record
    readLog,          \* directories handed to read_manifest, in call order
    root_manifest,    \* Workspace.root_manifest: Option<PathBuf>
    members,          \* Workspace.members: Vec<PathBuf>
    stack,            \* pending find_path_deps calls, innermost frame last
    vidx,             \* validate: index of the member whose root is recomputed
    pc,               \* position inside Workspace::new
    result,           \* "running", "Ok" or the error kind
    errInfo,          \* the paths an error message cites
    errHint,          \* NotAMember: which fix the message suggests
    is_ephemeral,     \* Workspace.is_ephemeral
    observed          \* what the last accessor call on the workspace gave

vars == <<fs, current_manifest, packages, readLog, root_manifest, members,
          stack, vidx, pc, result, errInfo, errHint, is_ephemeral, observed>>

-----------------------------------------------------------------------------
(* Bounds of the model *)

\* at most this many optional features (a dependency edge, a pointer, a
\* member or exclude pattern, a name clash) are laid on a base layout
MaxExtras == 2

-----------------------------------------------------------------------------
(* Paths *)

W == <<"w">>
M == <<"w", "m">>
N == <<"w", "m", "n">>
X == <<"x">>

Dirs == {W, M, N, X}

ManifestFile == "Cargo.toml"

ManifestOf(dir) == Append(dir, ManifestFile)

\* Path::parent
Parent(p) == SubSeq(p, 1, Len(p) - 1)

\* Path::join with a relative right-hand side
Join(p, q) == p \o q

\* Path::components: a "." inside a path is no component
Components(p) == LET Named(c) == c # "." IN SelectSeq(p, Named)

\* Path::starts_with: whole components
StartsWith(p, q) ==
    LET pc1 == Components(p)
        qc == Components(q)
    IN  Len(qc) <= Len(pc1) /\ SubSeq(pc1, 1, Len(qc)) = qc

\* a strip_prefix that leaves the path whole
KeepPrefix(p, q) == p

\* Path::strip_prefix, defined when StartsWith(p, q)
StripPrefix(p, q) == SubSeq(p, Len(q) + 1, Len(p))

RECURSIVE NormalizeFrom(_, _)
NormalizeFrom(acc, rest) ==
    IF rest = <<>> THEN acc
    ELSE LET c == Head(rest) IN
         IF c = ".." THEN
             NormalizeFrom(IF acc = <<>> THEN acc ELSE Parent(acc), Tail(rest))
         ELSE IF c = "." THEN NormalizeFrom(acc, Tail(rest))
         ELSE NormalizeFrom(Append(acc, c), Tail(rest))

\* paths::normalize_path: lexical, ".." pops a component, "." is dropped
NormalizePath(p) == NormalizeFrom(<<>>, p)

RECURSIVE Ancestors(_)
\* paths::ancestors: the path itself, then each parent up to "/"
Ancestors(p) == IF p = <<>> THEN <<p>> ELSE <<p>> \o Ancestors(Parent(p))

\* Iterator::skip(n)
Skip(s, n) == SubSeq(s, n + 1, Len(s))

Range(s) == {s[i] : i \in 1..Len(s)}

-----------------------------------------------------------------------------
(* Manifests on disk *)

\* MaybePackage with its WorkspaceConfig, flattened:
\*   kind       "Package" | "Virtual" ("absent": no Cargo.toml in the directory)
\*   cfg        "Root" | "Member"
\*   hasMembers/members   Root { members: Option<Vec<String>> }
\*   exclude              Root { exclude: Vec<String> }
\*   hasPtr/ptr           Member { root: Option<String> }
\*   name, deps           Package name and the directories of its path dependencies
Record(kind, name, deps, cfg, hasMembers, mem, exclude, hasPtr, ptr) ==
    [kind |-> kind, name |-> name, deps |-> deps, cfg |-> cfg,
     hasMembers |-> hasMembers, members |-> mem, exclude |-> exclude,
     hasPtr |-> hasPtr, ptr |-> ptr]

Absent == Record("absent", "", <<>>, "Member", FALSE, <<>>, <<>>, FALSE, <<>>)

\* the base layouts: what kind of manifest, if any, each directory holds
BaseKinds(d) == IF d = N THEN {"absent", "member"}
                ELSE IF d = X THEN {"absent", "member", "root"}
                ELSE {"absent", "member", "root", "vroot"}

Bases == {b \in [Dirs -> {"absent", "member", "root", "vroot"}] :
             \A d \in Dirs : b[d] \in BaseKinds(d)}

Feature(f, d, t) == [f |-> f, d |-> d, t |-> t]

\* a path dependency of the package in d on the directory t
DepFeatures == {Feature("dep", W, M), Feature("dep", W, X), Feature("dep", M, W),
                Feature("dep", M, N), Feature("dep", M, X), Feature("dep", N, M),
                Feature("dep", N, X), Feature("dep", X, W), Feature("dep", X, M)}

\* package.workspace of d points at directory t
PtrFeatures == {Feature("ptr", M, X), Feature("ptr", X, W), Feature("ptr", N, X),
                Feature("ptr", M, W), Feature("ptr", W, X)}

\* one pattern of workspace.members of the root in d
MemFeatures == {Feature("mem", W, <<"m">>), Feature("mem", W, <<"m", "n">>),
                Feature("mem", W, <<"m", "*">>), Feature("mem", W, <<"n">>),
                Feature("mem", W, <<"..", "x">>), Feature("mem", M, <<"n">>)}

\* workspace.members = [] of the root in d
MemEmptyFeatures == {Feature("memEmpty", W, <<>>)}

\* one pattern of workspace.exclude of the root in d
ExclFeatures == {Feature("excl", W, <<"m">>), Feature("excl", W, <<"m", "n">>),
                 Feature("excl", W, <<".">>), Feature("excl", M, <<"n">>)}

\* the package in d carries the same name as the package in W
NameFeatures == {Feature("name", d, <<>>) : d \in {M, N, X}}

Features == DepFeatures \cup PtrFeatures \cup MemFeatures \cup MemEmptyFeatures
            \cup ExclFeatures \cup NameFeatures

RECURSIVE SubsetsUpTo(_)
SubsetsUpTo(k) ==
    IF k = 0 THEN {{}}
    ELSE LET S == SubsetsUpTo(k - 1) IN
         S \cup {s \cup {f} : s \in S, f \in Features}

ExtraSets == SubsetsUpTo(MaxExtras)

\* a feature needs a manifest of the right kind to sit in
Applicable(b, x) ==
    CASE x.f \in {"dep", "name"} -> b[x.d] \in {"member", "root"}
      [] x.f = "ptr" -> b[x.d] = "member"
      [] OTHER -> b[x.d] \in {"root", "vroot"}

\* the fixed orders in which a manifest lists its dependencies and patterns
DirOrder == <<W, M, N, X>>
PatternOrder == <<<<"m">>, <<"m", "n">>, <<"m", "*">>, <<"n">>, <<"..", "x">>, <<".">>>>

RECURSIVE Times(_, _)
Times(s, n) == IF n = 0 THEN <<>> ELSE s \o Times(s, n - 1)

\* the relative path from directory d to directory t
RelTo(d, t) == Times(<<"..">>, Len(d)) \o t

Pick(order, f, d, ex) ==
    LET Has(t) == Feature(f, d, t) \in ex IN SelectSeq(order, Has)

BuildManifest(b, ex, d) ==
    LET ptrs == {x \in ex : x.f = "ptr" /\ x.d = d}
        mem == Pick(PatternOrder, "mem", d, ex)
    IN  IF b[d] = "absent" THEN Absent
        ELSE Record(IF b[d] = "vroot" THEN "Virtual" ELSE "Package",
                    IF b[d] = "vroot" THEN ""
                    ELSE IF Feature("name", d, <<>>) \in ex THEN W[Len(W)]
                    ELSE d[Len(d)],
                    IF b[d] = "vroot" THEN <<>> ELSE Pick(DirOrder, "dep", d, ex),
                    IF b[d] = "member" THEN "Member" ELSE "Root",
                    mem # <<>> \/ Feature("memEmpty", d, <<>>) \in ex,
                    mem,
                    Pick(PatternOrder, "excl", d, ex),
                    ptrs # {},
                    IF ptrs = {} THEN <<>> ELSE RelTo(d, (CHOOSE x \in ptrs : TRUE).t))

\* at most one pointer per manifest
WellFormed(ex) ==
    \A x, y \in ex : (x.f = "ptr" /\ y.f = "ptr" /\ x.d = y.d) => x = y

Layouts == {[d \in Dirs |-> BuildManifest(b, ex, d)] :
               <<b, ex>> \in {be \in Bases \X ExtraSets :
                                 /\ WellFormed(be[2])
                                 /\ \A x \in be[2] : Applicable(be[1], x)}}

\* the file system: which paths exist
HasManifest(dir) == dir \in Dirs /\ fs[dir].kind # "absent"

DirExists(p) == \E d \in Dirs : HasManifest(d) /\ StartsWith(d, p)

\* a file system on which every path exists
ExistsAlways(p) == TRUE

\* Path::exists
Exists(p) == \/ DirExists(p)
             \/ p # <<>> /\ p[Len(p)] = ManifestFile /\ HasManifest(Parent(p))

-----------------------------------------------------------------------------
(* Option<PathBuf> *)

None == [some |-> FALSE, path |-> <<>>]
Some(p) == [some |-> TRUE, path |-> p]

-----------------------------------------------------------------------------
(* Packages: the manifest cache *)

\* util::toml::read_manifest: the record on disk, or an I/O error
CanRead(manifest_path) ==
    /\ manifest_path # <<>>
    /\ manifest_path[Len(manifest_path)] = ManifestFile
    /\ HasManifest(Parent(manifest_path))

\* a load that never consults the cache
LoadUncached(pk, lg, manifest_path) ==
    LET key == Parent(manifest_path) IN
    IF CanRead(manifest_path) THEN
        [ok |-> TRUE, rec |-> fs[key],
         pk |-> [d \in DOMAIN pk \cup {key} |-> IF d = key THEN fs[key] ELSE pk[d]],
         lg |-> Append(lg, key)]
    ELSE
        [ok |-> FALSE, rec |-> Absent, pk |-> pk, lg |-> Append(lg, key)]

\* a load that hands out what it read and stores nothing
LoadWithoutStoring(pk, lg, manifest_path) ==
    LET key == Parent(manifest_path) IN
    IF key \in DOMAIN pk THEN
        [ok |-> TRUE, rec |-> pk[key], pk |-> pk, lg |-> lg]
    ELSE IF CanRead(manifest_path) THEN
        [ok |-> TRUE, rec |-> fs[key], pk |-> pk, lg |-> Append(lg, key)]
    ELSE
        [ok |-> FALSE, rec |-> Absent, pk |-> pk, lg |-> Append(lg, key)]

\* Packages::load on cache pk with read log lg.  A hit returns the stored
\* record; a miss calls read_manifest and stores what it returns.
Load(pk, lg, manifest_path) ==
    LET key == Parent(manifest_path) IN
    IF key \in DOMAIN pk THEN
        [ok |-> TRUE, rec |-> pk[key], pk |-> pk, lg |-> lg]
    ELSE IF CanRead(manifest_path) THEN
        [ok |-> TRUE, rec |-> fs[key], pk |-> pk @@ (key :> fs[key]),
         lg |-> Append(lg, key)]
    ELSE
        [ok |-> FALSE, rec |-> Absent, pk |-> pk, lg |-> Append(lg, key)]

\* Packages::get: indexing the map panics when the key is absent
CanGet(pk, manifest_path) == Parent(manifest_path) \in DOMAIN pk
Get(pk, manifest_path) == pk[Parent(manifest_path)]

-----------------------------------------------------------------------------
(* is_excluded and find_root *)

\* an exclusion test that excludes nothing
is_excluded_never(rootRec, root_path, manifest_path) == FALSE

\* an exclusion test that overlooks the explicit members
is_excluded_ignoring_members(rootRec, root_path, manifest_path) ==
    \E i \in 1..Len(rootRec.exclude) :
        StartsWith(manifest_path, Join(root_path, rootRec.exclude[i]))

\* is_excluded(members, exclude, root_path, manifest_path); rootRec carries
\* the Root config's members and exclude
is_excluded(rootRec, root_path, manifest_path) ==
    LET excluded ==
            \E i \in 1..Len(rootRec.exclude) :
                StartsWith(manifest_path, Join(root_path, rootRec.exclude[i]))
        explicit_member ==
            /\ rootRec.hasMembers
            /\ \E i \in 1..Len(rootRec.members) :
                   StartsWith(manifest_path, Join(root_path, rootRec.members[i]))
    IN  ~explicit_member /\ excluded

\* a pointer resolved without normalizing the joined path
read_root_pointer_as_joined(member_manifest, root_link) ==
    Join(Join(Parent(member_manifest), root_link), <<ManifestFile>>)

\* find_root's read_root_pointer
read_root_pointer(member_manifest, root_link) ==
    NormalizePath(Join(Join(Parent(member_manifest), root_link), <<ManifestFile>>))

FindRootResult(err, res, pk, lg) == [err |-> err, res |-> res, pk |-> pk, lg |-> lg]

RECURSIVE Climb(_, _, _, _)
RECURSIVE ClimbAt(_, _, _, _)
\* the loop of find_root over the remaining ancestors `anc`
Climb(pk, lg, anc, manifest_path) ==
    IF anc = <<>> THEN FindRootResult("", None, pk, lg)
    ELSE IF ~Exists(Join(Head(anc), <<ManifestFile>>))
    THEN Climb(pk, lg, Tail(anc), manifest_path)
    ELSE ClimbAt(Load(pk, lg, Join(Head(anc), <<ManifestFile>>)), Head(anc),
                 Tail(anc), manifest_path)

\* one turn of the loop on an ancestor `path` that holds a manifest, `l` being
\* what `self.packages.load(&manifest)` gave
ClimbAt(l, path, higher, manifest_path) ==
    IF ~l.ok THEN FindRootResult("ManifestIoError", None, l.pk, l.lg)
    ELSE IF l.rec.cfg = "Root" THEN
        IF ~is_excluded(l.rec, path, manifest_path)
        THEN FindRootResult("", Some(Join(path, <<ManifestFile>>)), l.pk, l.lg)
        ELSE Climb(l.pk, l.lg, higher, manifest_path)
    ELSE IF l.rec.hasPtr THEN
        FindRootResult("", Some(read_root_pointer(Join(path, <<ManifestFile>>),
                                                  l.rec.ptr)),
                       l.pk, l.lg)
    ELSE Climb(l.pk, l.lg, higher, manifest_path)

\* the climb first, the manifest's own pointer only if the climb finds nothing
ClimbThenPointer(l, c, manifest_path) ==
    IF c.err = "" /\ ~c.res.some /\ l.rec.hasPtr
    THEN FindRootResult("", Some(read_root_pointer(manifest_path, l.rec.ptr)),
                        c.pk, c.lg)
    ELSE c

\* the match on a manifest's own config with the pointer arm after the climb
FromOwnConfigClimbingFirst(l, manifest_path) ==
    IF ~l.ok THEN FindRootResult("ManifestIoError", None, l.pk, l.lg)
    ELSE IF l.rec.cfg = "Root" THEN
        FindRootResult("", Some(manifest_path), l.pk, l.lg)
    ELSE ClimbThenPointer(l, Climb(l.pk, l.lg, Skip(Ancestors(manifest_path), 2),
                                   manifest_path),
                          manifest_path)

\* a find_root that climbs before it looks at the manifest's own pointer
find_root_climbing_first(pk, lg, manifest_path) ==
    FromOwnConfigClimbingFirst(Load(pk, lg, manifest_path), manifest_path)

\* a match that takes every readable manifest for the root of itself
FromOwnConfigAsRoot(l, manifest_path) ==
    IF ~l.ok THEN FindRootResult("ManifestIoError", None, l.pk, l.lg)
    ELSE FindRootResult("", Some(manifest_path), l.pk, l.lg)

\* find_root: the match on the manifest's own workspace config, `l` being
\* what `self.packages.load(manifest_path)` gave, then the climb
FromOwnConfig(l, manifest_path) ==
    IF ~l.ok THEN FindRootResult("ManifestIoError", None, l.pk, l.lg)
    ELSE IF l.rec.cfg = "Root" THEN
        FindRootResult("", Some(manifest_path), l.pk, l.lg)
    ELSE IF l.rec.hasPtr THEN
        FindRootResult("", Some(read_root_pointer(manifest_path, l.rec.ptr)),
                       l.pk, l.lg)
    ELSE Climb(l.pk, l.lg, Skip(Ancestors(manifest_path), 2), manifest_path)

\* Workspace::find_root
find_root(pk, lg, manifest_path) ==
    FromOwnConfig(Load(pk, lg, manifest_path), manifest_path)

-----------------------------------------------------------------------------
(* Workspace::new *)

Fail(kind, info, hint) ==
    /\ pc' = "done"
    /\ result' = kind
    /\ errInfo' = info
    /\ errHint' = hint

\* Workspace::new up to `ws.root_manifest = ws.find_root(manifest_path)?`
New ==
    /\ pc = "new"
    /\ \E r \in {find_root(packages, readLog, current_manifest)} :
       /\ packages' = r.pk
       /\ readLog' = r.lg
       /\ IF r.err # ""
          THEN /\ Fail(r.err, <<current_manifest>>, "")
               /\ UNCHANGED root_manifest
          ELSE /\ root_manifest' = r.res
               /\ pc' = "find_members"
               /\ UNCHANGED <<result, errInfo, errHint>>
    /\ UNCHANGED <<fs, is_ephemeral, observed, current_manifest, members, stack, vidx>>

-----------------------------------------------------------------------------
(* find_members and find_path_deps *)

\* the names a directory can hold, in the order glob yields them
NameOrder == <<ManifestFile, "m", "n", "w", "x">>

RECURSIVE Flatten(_)
Flatten(ss) == IF ss = <<>> THEN <<>> ELSE Head(ss) \o Flatten(Tail(ss))

RECURSIVE GlobFrom(_, _)
\* glob: the existing paths that match, "*" standing for any one name
GlobFrom(prefix, rest) ==
    IF rest = <<>> THEN
        IF Exists(NormalizePath(prefix)) THEN <<prefix>> ELSE <<>>
    ELSE IF Head(rest) = "*" THEN
        Flatten([i \in 1..Len(NameOrder) |->
                    IF Exists(NormalizePath(Append(prefix, NameOrder[i])))
                    THEN GlobFrom(Append(prefix, NameOrder[i]), Tail(rest))
                    ELSE <<>>])
    ELSE GlobFrom(Append(prefix, Head(rest)), Tail(rest))

\* expand_member_path
expand_member_path(path) == GlobFrom(<<>>, path)

RECURSIVE ExpandedListDropping(_, _)
\* an expanded_list that drops the patterns glob finds nothing for
ExpandedListDropping(root, list) ==
    IF list = <<>> THEN <<>>
    ELSE expand_member_path(Join(root, Head(list)))
         \o ExpandedListDropping(root, Tail(list))

RECURSIVE ExpandedList(_, _)
\* find_members: the expanded_list built from the explicit member patterns
ExpandedList(root, list) ==
    IF list = <<>> THEN <<>>
    ELSE LET pathbuf == Join(root, Head(list))
             expanded_paths == expand_member_path(pathbuf)
         IN  (IF expanded_paths = <<>> THEN <<pathbuf>> ELSE expanded_paths)
             \o ExpandedList(root, Tail(list))

\* a pending sequence of find_path_deps calls: the loop of find_members
\* (is_path_dep false) or the loop over one package's candidates (true)
Frame(items, dep) == [items |-> items, dep |-> dep]

RECURSIVE Unwind(_)
\* return from every call whose loop has no candidate left
Unwind(st) ==
    IF st = <<>> THEN st
    ELSE IF st[Len(st)].items = <<>> THEN Unwind(SubSeq(st, 1, Len(st) - 1))
    ELSE st

\* Workspace::root
WsRoot == Parent(IF root_manifest.some THEN root_manifest.path
                 ELSE current_manifest)

\* Workspace::find_members up to its calls of find_path_deps
FindMembers ==
    /\ pc = "find_members"
    /\ IF ~root_manifest.some THEN
           /\ members' = <<current_manifest>>
           /\ pc' = "validate"
           /\ UNCHANGED <<packages, readLog, stack, result, errInfo, errHint>>
       ELSE
           \E l \in {Load(packages, readLog, root_manifest.path)} :
           /\ packages' = l.pk
           /\ readLog' = l.lg
           /\ UNCHANGED members
           /\ IF ~l.ok THEN
                  /\ Fail("ManifestIoError", <<root_manifest.path>>, "")
                  /\ UNCHANGED stack
              ELSE IF l.rec.cfg # "Root" THEN
                  /\ Fail("InferredNotRoot", <<root_manifest.path>>, "")
                  /\ UNCHANGED stack
              ELSE
                  \E expanded_list \in
                         {IF l.rec.hasMembers
                          THEN ExpandedList(Parent(root_manifest.path), l.rec.members)
                          ELSE <<>>} :
                      /\ stack' = <<Frame([i \in 1..Len(expanded_list) |->
                                              Join(expanded_list[i], <<ManifestFile>>)]
                                          \o <<root_manifest.path>>,
                                          FALSE)>>
                      /\ pc' = "find_path_deps"
                      /\ UNCHANGED <<result, errInfo, errHint>>
    /\ UNCHANGED <<fs, is_ephemeral, observed, current_manifest, root_manifest, vidx>>

\* a visit check that never recognises a member
NeverAlreadyMember(mem, manifest_path) == FALSE

\* find_path_deps: `self.members.iter().any(|p| p == &manifest_path)`
AlreadyMember(mem, manifest_path) ==
    \E i \in 1..Len(mem) : mem[i] = manifest_path

\* a check that takes every path dependency for one below the root
NeverOutsideWorkspace(is_path_dep, manifest_path, ws_root) == FALSE

\* find_path_deps: a path dependency whose directory is not below the root's
OutsideWorkspace(is_path_dep, manifest_path, ws_root) ==
    is_path_dep /\ ~StartsWith(Parent(manifest_path), ws_root)

\* a package whose path dependencies are not followed
NoCandidates(pkg) == <<>>

\* find_path_deps: the manifests of the package's path dependencies
Candidates(pkg) ==
    [i \in 1..Len(pkg.deps) |-> Join(pkg.deps[i], <<ManifestFile>>)]

PathDepsResult(err, pk, lg, mem, candidates) ==
    [err |-> err, pk |-> pk, lg |-> lg, members |-> mem, candidates |-> candidates]

\* find_path_deps from the push on, `lp` being what
\* `self.packages.load(&manifest_path)` gave: a virtual manifest has no
\* candidates
PushMember(lp, pushed) ==
    IF ~lp.ok THEN PathDepsResult("ManifestIoError", lp.pk, lp.lg, pushed, <<>>)
    ELSE IF lp.rec.kind = "Virtual" THEN PathDepsResult("", lp.pk, lp.lg, pushed, <<>>)
    ELSE PathDepsResult("", lp.pk, lp.lg, pushed, Candidates(lp.rec))

\* find_path_deps: the exclusion test, `lr` being what
\* `self.packages.load(root_manifest)` gave
UnlessExcluded(lr, mem, manifest_path, root_path) ==
    IF ~lr.ok THEN PathDepsResult("ManifestIoError", lr.pk, lr.lg, mem, <<>>)
    ELSE IF lr.rec.cfg = "Root" /\ is_excluded(lr.rec, Parent(root_path), manifest_path)
    THEN PathDepsResult("", lr.pk, lr.lg, mem, <<>>)
    ELSE PushMember(Load(lr.pk, lr.lg, manifest_path), Append(mem, manifest_path))

\* a path dependency outside the workspace taken in whatever its root is
WhateverItsRoot(fr, mem, manifest_path, root_path) ==
    IF fr.err # "" THEN PathDepsResult(fr.err, fr.pk, fr.lg, mem, <<>>)
    ELSE UnlessExcluded(Load(fr.pk, fr.lg, root_path), mem, manifest_path, root_path)

\* find_path_deps: a path dependency outside the workspace is skipped unless
\* its root is this workspace's, `fr` being what find_root gave for it
UnlessForeign(fr, mem, manifest_path, root_path) ==
    IF fr.err # "" THEN PathDepsResult(fr.err, fr.pk, fr.lg, mem, <<>>)
    ELSE IF fr.res # root_manifest THEN PathDepsResult("", fr.pk, fr.lg, mem, <<>>)
    ELSE UnlessExcluded(Load(fr.pk, fr.lg, root_path), mem, manifest_path, root_path)

\* find_path_deps on the normalized manifest_path
VisitManifest(pk, lg, mem, manifest_path, root_path, is_path_dep) ==
    IF AlreadyMember(mem, manifest_path) THEN PathDepsResult("", pk, lg, mem, <<>>)
    ELSE IF OutsideWorkspace(is_path_dep, manifest_path, WsRoot)
    THEN UnlessForeign(find_root(pk, lg, manifest_path), mem, manifest_path, root_path)
    ELSE UnlessExcluded(Load(pk, lg, root_path), mem, manifest_path, root_path)

\* the body of one find_path_deps call, up to its loop over the candidates
find_path_deps(pk, lg, mem, path, root_path, is_path_dep) ==
    VisitManifest(pk, lg, mem, NormalizePath(path), root_path, is_path_dep)

\* a stack on which the candidates of a call wait until every loop already
\* pending has ended
DescendLast(rest, candidates) ==
    Unwind(IF candidates = <<>> THEN rest ELSE <<Frame(candidates, TRUE)>> \o rest)

\* the stack once a call has returned `candidates` for its own loop
Descend(rest, candidates) ==
    Unwind(IF candidates = <<>> THEN rest ELSE Append(rest, Frame(candidates, TRUE)))

\* one call of Workspace::find_path_deps: the next candidate of the
\* innermost loop; its own candidates become a new innermost loop
FindPathDeps ==
    /\ pc = "find_path_deps"
    /\ stack # <<>>
    /\ \E top \in {stack[Len(stack)]} :
       \E r \in {find_path_deps(packages, readLog, members, Head(top.items),
                                root_manifest.path, top.dep)} :
       \E st \in {Descend([stack EXCEPT ![Len(stack)].items = Tail(top.items)],
                          r.candidates)} :
           /\ packages' = r.pk
           /\ readLog' = r.lg
           /\ members' = r.members
           /\ IF r.err # "" THEN
                  /\ Fail(r.err, <<NormalizePath(Head(top.items))>>, "")
                  /\ UNCHANGED stack
              ELSE
                  /\ stack' = st
                  /\ pc' = IF st = <<>> THEN "validate" ELSE "find_path_deps"
                  /\ UNCHANGED <<result, errInfo, errHint>>
    /\ UNCHANGED <<fs, is_ephemeral, observed, current_manifest, root_manifest, vidx>>

-----------------------------------------------------------------------------
(* Members: the iterator over the packages of the member list *)

\* the outcome of an accessor call: whether Packages::get panicked, the
\* records handed out, and the answer of is_empty
Observation(call, panic, items, empty) ==
    [call |-> call, panic |-> panic, items |-> items, empty |-> empty]

NoCall == Observation("none", FALSE, <<>>, FALSE)

\* what one Members::next call gives with the inner iterator before the
\* i-th member: the package found and the iterator's new place, the end, or
\* the panic of Packages::get
NextResult(panic, some, item, pos) ==
    [panic |-> panic, some |-> some, item |-> item, pos |-> pos]

\* a next that hands out virtual manifests as well
MembersNextKeepingVirtual(pk, mem, i) ==
    IF i > Len(mem) THEN NextResult(FALSE, FALSE, Absent, i)
    ELSE IF ~CanGet(pk, mem[i]) THEN NextResult(TRUE, FALSE, Absent, i)
    ELSE NextResult(FALSE, TRUE, Get(pk, mem[i]), i + 1)

RECURSIVE MembersNext(_, _, _)
\* Members::next
MembersNext(pk, mem, i) ==
    IF i > Len(mem) THEN NextResult(FALSE, FALSE, Absent, i)
    ELSE IF ~CanGet(pk, mem[i]) THEN NextResult(TRUE, FALSE, Absent, i)
    ELSE IF Get(pk, mem[i]).kind = "Package"
    THEN NextResult(FALSE, TRUE, Get(pk, mem[i]), i + 1)
    ELSE MembersNext(pk, mem, i + 1)

RECURSIVE Drain(_, _, _, _)
\* the packages an iterator hands out when next is called until it ends
Drain(pk, mem, i, got) ==
    IF MembersNext(pk, mem, i).panic THEN Observation("members", TRUE, got, FALSE)
    ELSE IF ~MembersNext(pk, mem, i).some
    THEN Observation("members", FALSE, got, FALSE)
    ELSE Drain(pk, mem, MembersNext(pk, mem, i).pos,
               Append(got, MembersNext(pk, mem, i).item))

-----------------------------------------------------------------------------
(* validate *)

\* a name check that never finds a previous holder
NameNeverTaken(names, name) == FALSE

\* validate: `names.insert(name, member)` finds a previous holder of the name
NameTaken(names, name) == name \in DOMAIN names

\* a root count that only rejects zero roots
RootCountErrorZeroOnly(n) == IF n = 0 THEN "NoRootConfigured" ELSE ""

\* a root count that only rejects several roots
RootCountErrorSeveralOnly(n) == IF n > 1 THEN "MultipleRoots" ELSE ""

\* validate: `match roots.len()`
RootCountError(n) ==
    IF n = 0 THEN "NoRootConfigured"
    ELSE IF n = 1 THEN ""
    ELSE "MultipleRoots"

\* a containment check that accepts any recomputed root
SameRootUnchecked(root, expected) == TRUE

\* validate: `root == self.root_manifest`
SameRoot(root, expected) == root = expected

\* a membership check that takes the entry for a member
ContainsUnchecked(mem, manifest_path) == TRUE

\* validate: `self.members.contains(&self.current_manifest)`
Contains(mem, manifest_path) ==
    \E i \in 1..Len(mem) : mem[i] = manifest_path

ScanResult(err, roots, info) == [err |-> err, roots |-> roots, info |-> info]

RECURSIVE ScanMembers(_, _, _)
\* validate's first loop from member i on: `names` maps each package name
\* seen to its manifest, `roots` lists the directories of the Root members
ScanMembers(i, names, roots) ==
    IF i > Len(members) THEN ScanResult("", roots, <<>>)
    ELSE
        LET member == members[i] IN
        IF ~CanGet(packages, member) THEN ScanResult("Panic", roots, <<member>>)
        ELSE
            LET package == Get(packages, member)
                roots2 == IF package.cfg = "Root"
                          THEN Append(roots, Parent(member)) ELSE roots
            IN  IF package.kind = "Virtual" THEN ScanMembers(i + 1, names, roots2)
                ELSE IF NameTaken(names, package.name) THEN
                    ScanResult("DuplicateName", roots2,
                               <<names[package.name], member>>)
                ELSE ScanMembers(i + 1, names @@ (package.name :> member), roots2)

\* Workspace::validate: the early return, the name check and the root count
ValidateRoots ==
    /\ pc = "validate"
    /\ IF ~root_manifest.some THEN
           /\ pc' = "done"
           /\ result' = "Ok"
           /\ UNCHANGED <<errInfo, errHint, vidx>>
       ELSE
           \E s \in {ScanMembers(1, <<>>, <<>>)} :
           IF s.err # "" THEN
               /\ Fail(s.err, s.info, "")
               /\ UNCHANGED vidx
           ELSE IF RootCountError(Len(s.roots)) = "NoRootConfigured" THEN
               /\ Fail("NoRootConfigured",
                       <<current_manifest, root_manifest.path>>, "")
               /\ UNCHANGED vidx
           ELSE IF RootCountError(Len(s.roots)) = "MultipleRoots" THEN
               /\ Fail("MultipleRoots", s.roots, "")
               /\ UNCHANGED vidx
           ELSE
               /\ pc' = "validate_members"
               /\ vidx' = 1
               /\ UNCHANGED <<result, errInfo, errHint>>
    /\ UNCHANGED <<fs, is_ephemeral, observed, current_manifest, packages, readLog,
                   root_manifest,
                   members, stack>>

\* Workspace::validate: one turn of the loop that recomputes a member's root
ValidateMember ==
    /\ pc = "validate_members"
    /\ vidx <= Len(members)
    /\ \E member \in {members[vidx]} :
       \E r \in {find_root(packages, readLog, member)} :
           /\ packages' = r.pk
           /\ readLog' = r.lg
           /\ IF r.err # "" THEN
                  /\ Fail(r.err, <<member>>, "")
                  /\ UNCHANGED vidx
              ELSE IF SameRoot(r.res, root_manifest) THEN
                  /\ vidx' = vidx + 1
                  /\ pc' = IF vidx = Len(members) THEN "validate_current"
                           ELSE "validate_members"
                  /\ UNCHANGED <<result, errInfo, errHint>>
              ELSE IF r.res.some THEN
                  /\ Fail("WrongWorkspace",
                          <<member, root_manifest.path, r.res.path>>, "")
                  /\ UNCHANGED vidx
              ELSE
                  /\ Fail("NotHierarchicallyBelow",
                          <<member, root_manifest.path>>, "")
                  /\ UNCHANGED vidx
    /\ UNCHANGED <<fs, is_ephemeral, observed, current_manifest, root_manifest,
                   members, stack>>

\* Workspace::validate: the entry must be a member.  The profile check
\* that follows walks members(); its warnings go to the shell and leave the
\* workspace as it is.
ValidateCurrent ==
    /\ pc = "validate_current"
    /\ IF Contains(members, current_manifest) THEN
           IF Drain(packages, members, 1, <<>>).panic THEN
               Fail("Panic", <<>>, "")
           ELSE
               /\ pc' = "done"
               /\ result' = "Ok"
               /\ UNCHANGED <<errInfo, errHint>>
       ELSE
           LET root == root_manifest.path
               root_dir == Parent(root)
               current_dir == Parent(current_manifest)
               below == StartsWith(current_dir, root_dir)
               members_msg == IF below THEN "add_relative_path" ELSE "add_a_member"
           IN  IF ~CanGet(packages, root) THEN Fail("Panic", <<root>>, "")
               ELSE
                   LET root_pkg == Get(packages, root)
                       extra ==
                           IF root_pkg.kind = "Virtual" THEN members_msg
                           ELSE IF root_pkg.cfg # "Root" THEN "unreachable"
                           ELSE IF ~root_pkg.hasMembers THEN "depend_on_it"
                           ELSE members_msg
                   IN  IF extra = "unreachable" THEN Fail("Panic", <<root>>, "")
                       ELSE Fail("NotAMember",
                                 IF extra = "add_relative_path"
                                 THEN <<current_manifest, root,
                                        StripPrefix(current_dir, root_dir)>>
                                 ELSE <<current_manifest, root>>,
                                 extra)
    /\ UNCHANGED <<fs, is_ephemeral, observed, current_manifest, packages, readLog,
                   root_manifest,
                   members, stack, vidx>>

-----------------------------------------------------------------------------
Init ==
    /\ fs \in Layouts
    /\ current_manifest \in {ManifestOf(d) : d \in Dirs}
    /\ HasManifest(Parent(current_manifest))
    /\ packages = <<>>
    /\ readLog = <<>>
    /\ root_manifest = None
    /\ members = <<>>
    /\ stack = <<>>
    /\ vidx = 0
    /\ pc = "new"
    /\ result = "running"
    /\ errInfo = <<>>
    /\ errHint = ""
    /\ is_ephemeral = FALSE
    /\ observed = NoCall

Next ==
    \/ New
    \/ FindMembers
    \/ FindPathDeps
    \/ ValidateRoots
    \/ ValidateMember
    \/ ValidateCurrent

Spec == Init /\ [][Next]_vars

-----------------------------------------------------------------------------
(* Workspace::ephemeral *)

\* the `package` argument: a package built beforehand whose manifest_path is
\* the entry; what it holds need not be what is on disk
EphemeralPackages ==
    {Record("Package", "e", <<>>, "Member", FALSE, <<>>, <<>>, FALSE, <<>>)}
        \cup {fs[d] : d \in {e \in Dirs : /\ e = Parent(current_manifest)
                                         /\ fs[e].kind = "Package"}}

\* an insert that leaves the map as it was
InsertNothing(pk, key, package) == pk

\* HashMap::insert
Insert(pk, key, package) == (key :> package) @@ pk

\* Workspace::ephemeral.  `target_dir` is Some(dir), or None with
\* config.target_dir() answering (configured) or failing (unavailable).
Ephemeral ==
    /\ pc = "new"
    /\ \E package \in EphemeralPackages :
       \E target_dir \in {"given", "configured", "unavailable"} :
           /\ is_ephemeral' = TRUE
           /\ packages' = Insert(packages, Parent(current_manifest), package)
           /\ IF target_dir = "unavailable"
              THEN /\ Fail("ConfigError", <<>>, "")
                   /\ UNCHANGED members
              ELSE /\ members' = Append(members, current_manifest)
                   /\ pc' = "done"
                   /\ result' = "Ok"
                   /\ UNCHANGED <<errInfo, errHint>>
    /\ UNCHANGED <<fs, observed, current_manifest, readLog, root_manifest, stack,
                   vidx>>

EphemeralNext == Ephemeral

EphemeralSpec == Init /\ [][EphemeralNext]_vars

-----------------------------------------------------------------------------
(* The accessors of a workspace *)

\* Workspace::members, iterated to its end
CallMembers ==
    /\ pc = "done" /\ result = "Ok"
    /\ observed' = Drain(packages, members, 1, <<>>)
    /\ UNCHANGED <<fs, current_manifest, packages, readLog, root_manifest,
                   members, stack, vidx, pc, result, errInfo, errHint,
                   is_ephemeral>>

\* Members::is_empty on a new iterator: `self.count() == 0`
CallIsEmpty ==
    /\ pc = "done" /\ result = "Ok"
    /\ \E d \in {Drain(packages, members, 1, <<>>)} :
           observed' = Observation("is_empty", d.panic, <<>>,
                                   ~d.panic /\ Len(d.items) = 0)
    /\ UNCHANGED <<fs, current_manifest, packages, readLog, root_manifest,
                   members, stack, vidx, pc, result, errInfo, errHint,
                   is_ephemeral>>

\* an accessor's call of Packages::get on one manifest; `only_package`
\* when a virtual manifest gives None
GetFor(call, manifest_path, only_package) ==
    IF ~CanGet(packages, manifest_path) THEN Observation(call, TRUE, <<>>, FALSE)
    ELSE IF only_package /\ Get(packages, manifest_path).kind = "Virtual"
    THEN Observation(call, FALSE, <<>>, FALSE)
    ELSE Observation(call, FALSE, <<Get(packages, manifest_path)>>, FALSE)

\* Workspace::current_opt
CallCurrentOpt ==
    /\ pc = "done" /\ result = "Ok"
    /\ observed' = GetFor("current_opt", current_manifest, TRUE)
    /\ UNCHANGED <<fs, current_manifest, packages, readLog, root_manifest,
                   members, stack, vidx, pc, result, errInfo, errHint,
                   is_ephemeral>>

\* `self.root_manifest.as_ref().unwrap_or(&self.current_manifest)`
RootOrCurrent == IF root_manifest.some THEN root_manifest.path ELSE current_manifest

\* Workspace::profiles: the manifest whose profiles are handed out
CallProfiles ==
    /\ pc = "done" /\ result = "Ok"
    /\ observed' = GetFor("profiles", RootOrCurrent, FALSE)
    /\ UNCHANGED <<fs, current_manifest, packages, readLog, root_manifest,
                   members, stack, vidx, pc, result, errInfo, errHint,
                   is_ephemeral>>

\* Workspace::root_replace: the manifest whose [replace] is handed out
CallRootReplace ==
    /\ pc = "done" /\ result = "Ok"
    /\ observed' = GetFor("root_replace", RootOrCurrent, FALSE)
    /\ UNCHANGED <<fs, current_manifest, packages, readLog, root_manifest,
                   members, stack, vidx, pc, result, errInfo, errHint,
                   is_ephemeral>>

AccessNext ==
    \/ Next
    \/ CallMembers
    \/ CallIsEmpty
    \/ CallCurrentOpt
    \/ CallProfiles
    \/ CallRootReplace

AccessSpec == Init /\ [][AccessNext]_vars

-----------------------------------------------------------------------------
(* Vocabulary of the properties *)

Done == pc = "done"

\* what Workspace::validate can end with
ValidateOutcomes == {"Ok", "NoRootConfigured", "MultipleRoots", "DuplicateName",
                     "WrongWorkspace", "NotHierarchicallyBelow", "NotAMember",
                     "Panic"}

\* find_members has returned Ok: the member list is the discovered one
Discovered == \/ pc \in {"validate", "validate_members", "validate_current"}
              \/ Done /\ result \in ValidateOutcomes

Returned == Done /\ result = "Ok"

MemberSet == Range(members)

\* the manifest on disk behind a member path
OnDisk(manifest_path) ==
    IF Parent(manifest_path) \in Dirs THEN fs[Parent(manifest_path)] ELSE Absent

\* the root find_root computes for a member, from the current cache
RecomputedRoot(manifest_path) == find_root(packages, readLog, manifest_path).res

\* the members whose recomputed root is not the workspace root
Strays == {i \in 1..Len(members) : RecomputedRoot(members[i]) # root_manifest}

\* the members whose own config is a RootDeclaration
RootMembers == {i \in 1..Len(members) : OnDisk(members[i]).cfg = "Root"}

\* the later member of each pair of concrete packages with one name
NameClashes ==
    {j \in 1..Len(members) :
        /\ OnDisk(members[j]).kind = "Package"
        /\ \E i \in 1..(j - 1) :
              /\ OnDisk(members[i]).kind = "Package"
              /\ OnDisk(members[i]).name = OnDisk(members[j]).name}

Least(S) == CHOOSE i \in S : \A j \in S : i <= j

NoDuplicates(s) == \A i, j \in 1..Len(s) : s[i] = s[j] => i = j

-----------------------------------------------------------------------------
(* C1 *)

\* C1, as stated: a workspace returned with a root has only members whose
\* recomputed root is that root; and once discovery has ended with a member
\* whose recomputed root differs, construction has failed with
\* WrongWorkspace (a different root found) or NotHierarchicallyBelow (none).
C1_AsStated ==
    /\ (Returned /\ root_manifest.some) => Strays = {}
    /\ (Done /\ Discovered /\ root_manifest.some /\ Strays # {}) =>
           \E i \in Strays :
               result = IF RecomputedRoot(members[i]).some
                        THEN "WrongWorkspace" ELSE "NotHierarchicallyBelow"

\* C1, amended: a workspace returned with a root has only members whose
\* recomputed root is that root.  Once discovery has ended with a member whose
\* recomputed root differs, construction fails; unless the name check or the
\* root count fails first, the error is that of the first such member:
\* WrongWorkspace with the expected and the actual root when a different root
\* is found, NotHierarchicallyBelow when none is.
C1_MembersAgreeOnRoot ==
    /\ (Returned /\ root_manifest.some) => Strays = {}
    /\ (Done /\ Discovered /\ root_manifest.some /\ Strays # {}) =>
           /\ result # "Ok"
           /\ result \notin {"DuplicateName", "NoRootConfigured", "MultipleRoots"} =>
                  LET member == members[Least(Strays)]
                      actual == RecomputedRoot(member)
                  IN  IF actual.some
                      THEN /\ result = "WrongWorkspace"
                           /\ errInfo = <<member, root_manifest.path, actual.path>>
                      ELSE /\ result = "NotHierarchicallyBelow"
                           /\ errInfo = <<member, root_manifest.path>>
    /\ (Done /\ result \in {"WrongWorkspace", "NotHierarchicallyBelow"}) =>
           Strays # {}

\* a workspace of several members was returned, each checked against the root
C1_Witness ==
    /\ Returned /\ root_manifest.some /\ Len(members) >= 2
    /\ \E i \in 1..Len(members) : OnDisk(members[i]).hasPtr

-----------------------------------------------------------------------------
(* C2 *)

\* C2, as stated: Ok is returned only with the entry in the member list;
\* without a root the member list is exactly the entry; with a root and the
\* entry not discovered, construction fails with NotAMember.
C2_AsStated ==
    /\ Returned => current_manifest \in MemberSet
    /\ (Discovered /\ ~root_manifest.some) => members = <<current_manifest>>
    /\ (Done /\ Discovered /\ root_manifest.some
             /\ current_manifest \notin MemberSet) => result = "NotAMember"

\* C2, amended: Ok is returned only with the entry in the member list;
\* without a root the member list is exactly the entry; with a root and the
\* entry not discovered, construction fails, and with NotAMember unless the
\* name, root-count or containment check fails first.
C2_EntryIsMember ==
    /\ Returned => current_manifest \in MemberSet
    /\ (Discovered /\ ~root_manifest.some) => members = <<current_manifest>>
    /\ (Done /\ Discovered /\ root_manifest.some
             /\ current_manifest \notin MemberSet) =>
           /\ result # "Ok"
           /\ result \notin {"DuplicateName", "NoRootConfigured", "MultipleRoots",
                             "WrongWorkspace", "NotHierarchicallyBelow"} =>
                  /\ result = "NotAMember"
                  /\ errInfo[1] = current_manifest
                  /\ errInfo[2] = root_manifest.path
    /\ (Done /\ result = "NotAMember") => current_manifest \notin MemberSet

\* the entry resolved to a root whose discovery did not reach it
C2_Witness ==
    /\ Done /\ result = "NotAMember"
    /\ root_manifest.some /\ members # <<>>

-----------------------------------------------------------------------------
(* C3 *)

\* the directories of the members that are roots, in member order
RootDirsOf(mem) ==
    LET IsRoot(m) == OnDisk(m).cfg = "Root"
        roots == SelectSeq(mem, IsRoot)
    IN  [i \in 1..Len(roots) |-> Parent(roots[i])]

\* C3, as stated: a returned workspace has at most one member that is a
\* RootDeclaration, the root manifest itself when a root is present; a
\* discovery that collects two or more such members fails with MultipleRoots
\* listing each of their directories.
C3_AsStated ==
    /\ Returned => Cardinality(RootMembers) <= 1
    /\ (Returned /\ root_manifest.some) =>
           {members[i] : i \in RootMembers} = {root_manifest.path}
    /\ (Done /\ Discovered /\ Cardinality(RootMembers) >= 2) =>
           /\ result = "MultipleRoots"
           /\ errInfo = RootDirsOf(members)

\* C3, amended: a returned workspace has at most one member that is a
\* RootDeclaration, the root manifest itself when a root is present; a
\* discovery that collects two or more such members fails: with DuplicateName
\* when two concrete members share a name, and otherwise with MultipleRoots
\* listing each of their directories.
C3_SingleRoot ==
    /\ Returned => Cardinality(RootMembers) <= 1
    /\ (Returned /\ root_manifest.some) =>
           {members[i] : i \in RootMembers} = {root_manifest.path}
    /\ (Done /\ Discovered /\ Cardinality(RootMembers) >= 2) =>
           IF NameClashes # {} THEN result = "DuplicateName"
           ELSE /\ result = "MultipleRoots"
                /\ errInfo = RootDirsOf(members)

\* two roots were collected and reported
C3_Witness ==
    /\ Done /\ result = "MultipleRoots"
    /\ Cardinality(RootMembers) >= 2

-----------------------------------------------------------------------------
(* C4 *)

\* C4: a returned workspace has no two concrete packages of one name; a
\* discovered member list with two concrete packages of one name fails with
\* DuplicateName citing the two manifests; virtual manifests take no part.
C4_UniqueNames ==
    /\ Returned => NameClashes = {}
    /\ (Done /\ Discovered /\ root_manifest.some /\ NameClashes # {}) =>
           LET j == Least(NameClashes)
               i == CHOOSE k \in 1..(j - 1) :
                        /\ OnDisk(members[k]).kind = "Package"
                        /\ OnDisk(members[k]).name = OnDisk(members[j]).name
           IN  /\ result = "DuplicateName"
               /\ errInfo = <<members[i], members[j]>>
    /\ (Done /\ result = "DuplicateName") => NameClashes # {}

\* two concrete members of one name were found and reported
C4_Witness ==
    /\ Done /\ result = "DuplicateName"
    /\ Len(errInfo) = 2 /\ errInfo[1] # errInfo[2]

-----------------------------------------------------------------------------
(* C5 *)

\* C5: read_manifest is called at most once for a directory; a load of a
\* cached directory returns the stored record, calls nothing and leaves the
\* cache as it is; what the cache stores is what read_manifest returned.
C5_LoadedOnce ==
    /\ NoDuplicates(readLog)
    /\ \A d \in DOMAIN packages :
           LET l == Load(packages, readLog, ManifestOf(d)) IN
           /\ l.ok /\ l.rec = packages[d]
           /\ l.pk = packages /\ l.lg = readLog
           /\ d \in Range(readLog) /\ packages[d] = fs[d]

\* validate is recomputing roots: every member was loaded a second time
C5_Witness ==
    /\ pc = "validate_members" /\ vidx >= 2
    /\ Len(readLog) >= 2

-----------------------------------------------------------------------------
(* C6 *)

RECURSIVE Pending(_)
\* the find_path_deps calls still to be made by the loops on the stack
Pending(st) == IF st = <<>> THEN 0 ELSE Len(Head(st).items) + Pending(Tail(st))

\* one find_path_deps call: it returns without recursing, or it appends a
\* path that was not in the member list
PathDepsStep ==
    pc = "find_path_deps" =>
        \/ /\ members' = members
           /\ pc' = "done" \/ Pending(stack') = Pending(stack) - 1
        \/ /\ Len(members') = Len(members) + 1
           /\ SubSeq(members', 1, Len(members)) = members
           /\ members'[Len(members')] \notin Range(members)

\* the ancestors find_root climbs from a manifest: each shorter than the
\* one before, the last one the filesystem root
ClimbEnds(manifest_path) ==
    LET a == Ancestors(manifest_path) IN
    /\ a[Len(a)] = <<>>
    /\ \A i \in 1..(Len(a) - 1) : Len(a[i + 1]) < Len(a[i])

\* the manifests discovery can still add: those of the directories and those
\* named by the pending calls, less the members
Unvisited ==
    LET pending == UNION {{NormalizePath(stack[k].items[i]) :
                              i \in 1..Len(stack[k].items)} : k \in 1..Len(stack)}
    IN  Cardinality(({ManifestOf(d) : d \in Dirs} \cup pending) \ Range(members))

\* what is left of a construction: the phase, then within discovery the
\* manifests not yet added and the pending calls, within validate the
\* members not yet checked
Measure ==
    CASE pc = "new" -> <<4, 0, 0>>
      [] pc = "find_members" -> <<3, 0, 0>>
      [] pc = "find_path_deps" -> <<2, Unvisited, Pending(stack)>>
      [] pc = "validate" -> <<1, Len(members) + 2, 0>>
      [] pc = "validate_members" -> <<1, Len(members) + 1 - vidx, 0>>
      [] pc = "validate_current" -> <<1, 0, 0>>
      [] OTHER -> <<0, 0, 0>>

LexLess(a, b) ==
    \/ a[1] < b[1]
    \/ a[1] = b[1] /\ a[2] < b[2]
    \/ a[1] = b[1] /\ a[2] = b[2] /\ a[3] < b[3]

\* a construction that has not ended can take its next step
CanStep ==
    \/ pc \in {"new", "find_members", "validate", "validate_current"}
    \/ pc = "find_path_deps" /\ stack # <<>>
    \/ pc = "validate_members" /\ vidx <= Len(members)

\* C6: construction terminates, cycles of path dependencies included: every
\* find_path_deps call returns without recursing or appends a path not yet in
\* the member list, every find_root climb ends at the filesystem root, every
\* step leaves less to do (a measure over the naturals drops), and a
\* construction that has not ended can take a step.
C6_Terminates ==
    [][/\ PathDepsStep
       /\ LexLess(Measure', Measure)
       /\ ClimbEnds(current_manifest)
       /\ \A i \in 1..Len(members') : ClimbEnds(members'[i])
       /\ Done' \/ CanStep']_vars

\* discovery met a manifest again through a cycle of path dependencies and
\* returned at once
C6_Witness ==
    /\ Done /\ result = "Ok"
    /\ \E i, j \in 1..Len(members) :
          /\ i # j
          /\ Parent(members[j]) \in Range(OnDisk(members[i]).deps)
          /\ Parent(members[i]) \in Range(OnDisk(members[j]).deps)

-----------------------------------------------------------------------------
(* C7 *)

\* two packages with path dependencies on each other
Mutual(a, b) ==
    /\ a # b
    /\ fs[a].kind = "Package" /\ b \in Range(fs[a].deps)
    /\ fs[b].kind = "Package" /\ a \in Range(fs[b].deps)

\* C7, as stated: started from either of two packages with path dependencies
\* on each other, construction ends with the member set of exactly the two.
C7_AsStated ==
    \A a, b \in Dirs :
        (Mutual(a, b) /\ current_manifest = ManifestOf(a) /\ Done) =>
            MemberSet = {ManifestOf(a), ManifestOf(b)}

\* a declares [workspace] with neither members nor exclude, find_root of b
\* is a, and the two depend on each other and on nothing else
CycleInOneWorkspace(a, b) ==
    /\ Mutual(a, b)
    /\ fs[a].deps = <<b>> /\ fs[b].deps = <<a>>
    /\ fs[a].cfg = "Root" /\ ~fs[a].hasMembers /\ fs[a].exclude = <<>>
    /\ RecomputedRoot(ManifestOf(b)) = Some(ManifestOf(a))

\* C7, amended: for two packages A and B with path dependencies on each other
\* and on nothing else, where A declares [workspace] with neither members nor
\* exclude and find_root of B is A, construction from A and construction from
\* B both end with the member list [A, B], returned Ok unless the two carry
\* one name.
C7_CycleSameMembers ==
    \A a, b \in Dirs :
        (CycleInOneWorkspace(a, b) /\ Done
            /\ current_manifest \in {ManifestOf(a), ManifestOf(b)}) =>
            /\ members = <<ManifestOf(a), ManifestOf(b)>>
            /\ result = IF fs[a].name = fs[b].name THEN "DuplicateName" ELSE "Ok"

\* the cycle was entered from the package that is not the root
C7_Witness ==
    \E a, b \in Dirs :
        /\ CycleInOneWorkspace(a, b) /\ Returned
        /\ current_manifest = ManifestOf(b)
        /\ members = <<ManifestOf(a), ManifestOf(b)>>

-----------------------------------------------------------------------------
(* C8 *)

\* some member of the workspace has a path dependency on directory x
DependedOn(x) ==
    \E i \in 1..Len(members) :
        /\ OnDisk(members[i]).kind = "Package"
        /\ x \in Range(OnDisk(members[i]).deps)

\* the manifests the explicit member patterns of the root name
NamedByRoot ==
    LET rootRec == OnDisk(root_manifest.path)
        list == IF rootRec.cfg = "Root" /\ rootRec.hasMembers
                THEN ExpandedList(Parent(root_manifest.path), rootRec.members)
                ELSE <<>>
    IN  {NormalizePath(Join(list[i], <<ManifestFile>>)) : i \in 1..Len(list)}

-----------------------------------------------------------------------------
(* C9 *)

UnderAny(patterns, root_path, manifest_path) ==
    \E i \in 1..Len(patterns) :
        StartsWith(manifest_path, Join(root_path, patterns[i]))

\* nested under an explicit member pattern and under an exclude pattern
UnderBoth(rootRec, root_path, manifest_path) ==
    /\ rootRec.hasMembers
    /\ UnderAny(rootRec.members, root_path, manifest_path)
    /\ UnderAny(rootRec.exclude, root_path, manifest_path)

\* nested under an exclude pattern and under no explicit member pattern
UnderExcludeOnly(rootRec, root_path, manifest_path) ==
    /\ UnderAny(rootRec.exclude, root_path, manifest_path)
    /\ ~(rootRec.hasMembers /\ UnderAny(rootRec.members, root_path, manifest_path))

\* the nearest directory above a manifest's own that holds a manifest
NearestAbove(manifest_path) ==
    LET anc == Skip(Ancestors(manifest_path), 2)
        held == {i \in 1..Len(anc) : HasManifest(anc[i])}
    IN  IF held = {} THEN <<"none">> ELSE anc[Least(held)]

\* C9: for every root and candidate, a path under an explicit member pattern
\* and under an exclude pattern is not excluded, a path under an exclude
\* pattern only is; find_path_deps adds the first and leaves out the second,
\* and find_root climbing from the first accepts the root.
C9_ExplicitBeatsExclude ==
    [][/\ \A d \in Dirs : \A c \in Dirs :
              (fs[d].cfg = "Root" /\ fs[d].kind # "absent") =>
                  /\ UnderBoth(fs[d], d, ManifestOf(c)) =>
                         ~is_excluded(fs[d], d, ManifestOf(c))
                  /\ UnderExcludeOnly(fs[d], d, ManifestOf(c)) =>
                         is_excluded(fs[d], d, ManifestOf(c))
       /\ pc = "find_path_deps" =>
              LET top == stack[Len(stack)]
                  path == NormalizePath(Head(top.items))
                  rootRec == OnDisk(root_manifest.path)
                  root == Parent(root_manifest.path)
              IN  /\ (path \notin Range(members) /\ UnderBoth(rootRec, root, path)) =>
                         members' = Append(members, path)
                  /\ UnderExcludeOnly(rootRec, root, path) => members' = members
       /\ pc = "new" =>
              LET entry == OnDisk(current_manifest)
                  above == NearestAbove(current_manifest)
              IN  (/\ entry.cfg = "Member" /\ ~entry.hasPtr
                   /\ above \in Dirs /\ fs[above].cfg = "Root"
                   /\ UnderBoth(fs[above], above, current_manifest)) =>
                      root_manifest' = Some(ManifestOf(above))]_vars

\* a member under both an explicit member pattern and an exclude pattern of
\* the root, which find_root had accepted for it
C9_Witness ==
    /\ Returned /\ root_manifest.some
    /\ current_manifest # root_manifest.path
    /\ UnderBoth(OnDisk(root_manifest.path), Parent(root_manifest.path),
                 current_manifest)
    /\ current_manifest \in MemberSet

-----------------------------------------------------------------------------
(* C10 *)

\* the manifest a pointer in the manifest of directory d leads to
PointerTarget(d) == NormalizePath((d \o fs[d].ptr) \o <<ManifestFile>>)

\* climbing from manifest_path passes by directory a: no manifest, a member
\* without pointer, or a root that excludes manifest_path
PassedBy(a, manifest_path) ==
    \/ ~HasManifest(a)
    \/ fs[a].cfg = "Member" /\ ~fs[a].hasPtr
    \/ fs[a].cfg = "Root" /\ is_excluded(fs[a], a, manifest_path)

\* C10: find_root of a manifest with a pointer is the normalized pointer
\* target and reads that manifest only; find_root of a manifest without
\* pointer whose climb reaches an ancestor with a pointer is that pointer's
\* target and reads no higher ancestor; Workspace::new takes its root from
\* find_root of the entry.
C10_PointerShortCircuits ==
    /\ \A d \in Dirs :
           HasManifest(d) =>
               LET r == find_root(<<>>, <<>>, ManifestOf(d))
                   anc == Skip(Ancestors(ManifestOf(d)), 2)
               IN  /\ (fs[d].cfg = "Member" /\ fs[d].hasPtr) =>
                          /\ r.err = "" /\ r.res = Some(PointerTarget(d))
                          /\ r.lg = <<d>>
                   /\ (fs[d].cfg = "Member" /\ ~fs[d].hasPtr) =>
                          \A k \in 1..Len(anc) :
                              (/\ HasManifest(anc[k])
                               /\ fs[anc[k]].cfg = "Member" /\ fs[anc[k]].hasPtr
                               /\ \A j \in 1..(k - 1) :
                                      PassedBy(anc[j], ManifestOf(d))) =>
                                  /\ r.err = "" /\ r.res = Some(PointerTarget(anc[k]))
                                  /\ \A j \in (k + 1)..Len(anc) :
                                         anc[j] \notin Range(r.lg)
    /\ pc = "find_members" =>
           LET r == find_root(<<>>, <<>>, current_manifest) IN
           root_manifest = r.res /\ readLog = r.lg

\* the entry has a pointer and lies below a root that is not its target
C10_Witness ==
    /\ pc = "find_members"
    /\ OnDisk(current_manifest).hasPtr
    /\ root_manifest = Some(PointerTarget(Parent(current_manifest)))
    /\ readLog = <<Parent(current_manifest)>>
    /\ LET above == NearestAbove(current_manifest) IN
       /\ above \in Dirs /\ fs[above].cfg = "Root"
       /\ ~is_excluded(fs[above], above, current_manifest)
       /\ root_manifest # Some(ManifestOf(above))

-----------------------------------------------------------------------------
(* C11 *)

\* the entry's own config is a MemberDeclaration without pointer
EntryPlain ==
    /\ OnDisk(current_manifest).kind # "absent"
    /\ OnDisk(current_manifest).cfg = "Member"
    /\ ~OnDisk(current_manifest).hasPtr

\* the directories find_root climbs through from a manifest
Above(manifest_path) ==
    LET anc == Skip(Ancestors(manifest_path), 2) IN {anc[i] : i \in 1..Len(anc)}

\* the climb from manifest_path goes past directory a: it holds no manifest,
\* a member without pointer, or a root whose exclude list covers
\* manifest_path and whose explicit members do not
Skipped(a, manifest_path) ==
    \/ ~HasManifest(a)
    \/ fs[a].cfg = "Member" /\ ~fs[a].hasPtr
    \/ fs[a].cfg = "Root" /\ UnderExcludeOnly(fs[a], a, manifest_path)

\* C11, as stated: for an entry whose own config is a MemberDeclaration
\* without pointer, find_root returns absent and the member list is exactly
\* [entry].
C11_AsStated ==
    EntryPlain =>
        /\ pc # "new" => root_manifest = None
        /\ Discovered => members = <<current_manifest>>

\* C11, amended: for an entry whose own config is a MemberDeclaration
\* without pointer and above which no directory holds a root that accepts it
\* or a manifest with a pointer, find_root returns absent, the member list is
\* exactly [entry] and the workspace is returned.
C11_StandaloneEntry ==
    (EntryPlain /\ \A a \in Above(current_manifest) : Skipped(a, current_manifest)) =>
        /\ pc # "new" => root_manifest = None
        /\ Discovered => members = <<current_manifest>>
        /\ Done => result = "Ok"

\* a standalone workspace returned for an entry that has manifests above it
C11_Witness ==
    /\ Returned /\ EntryPlain
    /\ root_manifest = None /\ members = <<current_manifest>>
    /\ \E a \in Above(current_manifest) : HasManifest(a)
    /\ \A a \in Above(current_manifest) : Skipped(a, current_manifest)

-----------------------------------------------------------------------------
(* C12 *)

\* the manifest at an optional path is on disk with a RootDeclaration config
IsRootOnDisk(res) ==
    /\ res.some
    /\ OnDisk(res.path).kind # "absent"
    /\ OnDisk(res.path).cfg = "Root"

\* find_root from a fresh cache
FreshRoot(manifest_path) == find_root(<<>>, <<>>, manifest_path).res

\* res is the target of the pointer of directory d or of a directory above it
FromPointer(res, d) ==
    \E a \in {d} \cup Above(ManifestOf(d)) :
        /\ HasManifest(a) /\ fs[a].cfg = "Member" /\ fs[a].hasPtr
        /\ res = Some(PointerTarget(a))

\* C12, as stated: a present path returned by find_root, from any starting
\* manifest, is a manifest with a RootDeclaration config, and find_members
\* never fails with "root of a workspace inferred but wasn't a root".
C12_AsStated ==
    /\ \A d \in Dirs :
           (HasManifest(d) /\ FreshRoot(ManifestOf(d)).some) =>
               IsRootOnDisk(FreshRoot(ManifestOf(d)))
    /\ (pc # "new" /\ root_manifest.some) => IsRootOnDisk(root_manifest)
    /\ result # "InferredNotRoot"

\* C12, amended: a present path that find_root returns without taking it from
\* a package.workspace pointer is a manifest with a RootDeclaration config; a
\* pointer's target is returned unchecked, and construction fails with "root
\* of a workspace inferred but wasn't a root" exactly when the root found is a
\* manifest on disk that is not a RootDeclaration.
C12_RootUnlessPointer ==
    /\ \A d \in Dirs :
           (HasManifest(d) /\ FreshRoot(ManifestOf(d)).some) =>
               \/ IsRootOnDisk(FreshRoot(ManifestOf(d)))
               \/ FromPointer(FreshRoot(ManifestOf(d)), d)
    /\ (pc # "new" /\ root_manifest.some) =>
           \/ IsRootOnDisk(root_manifest)
           \/ FromPointer(root_manifest, Parent(current_manifest))
    /\ Done =>
           (result = "InferredNotRoot" <=>
               /\ root_manifest.some
               /\ OnDisk(root_manifest.path).kind # "absent"
               /\ OnDisk(root_manifest.path).cfg # "Root")

\* a pointer led find_root to a manifest that is not a root
C12_Witness ==
    /\ Done /\ result = "InferredNotRoot"
    /\ root_manifest = FreshRoot(current_manifest)
    /\ FromPointer(root_manifest, Parent(current_manifest))
    /\ OnDisk(root_manifest.path).kind = "Package"
    /\ ~IsRootOnDisk(root_manifest)

-----------------------------------------------------------------------------
(* C13 *)

\* validate ran its checks: there is a root and construction ended with one
\* of validate's outcomes
Validated == Done /\ root_manifest.some /\ result \in ValidateOutcomes

\* the member list violates the root count
BadRootCount == Cardinality(RootMembers) # 1

\* C13, as stated: when the discovered member list violates the root count
\* and holds two concrete packages with one name, validate returns the
\* root-count error.
C13_AsStated ==
    (Validated /\ BadRootCount /\ NameClashes # {}) =>
        result \in {"NoRootConfigured", "MultipleRoots"}

\* C13, amended: validate evaluates its fatal checks in the order name
\* uniqueness, root count, hierarchical containment, entry membership, and
\* returns the error of the first check that fails.
C13_CheckOrder ==
    Validated =>
        result =
            IF NameClashes # {} THEN "DuplicateName"
            ELSE IF Cardinality(RootMembers) = 0 THEN "NoRootConfigured"
            ELSE IF Cardinality(RootMembers) > 1 THEN "MultipleRoots"
            ELSE IF Strays # {} THEN
                (IF RecomputedRoot(members[Least(Strays)]).some
                 THEN "WrongWorkspace" ELSE "NotHierarchicallyBelow")
            ELSE IF current_manifest \notin MemberSet THEN "NotAMember"
            ELSE "Ok"

\* a member list that violates the root count and holds a name twice
C13_Witness ==
    /\ Validated /\ BadRootCount /\ NameClashes # {}
    /\ result = "DuplicateName"

-----------------------------------------------------------------------------
(* C14 *)

\* the entry's pointer resolves to a manifest on disk that is not configured
\* as a RootDeclaration
PointsToNonRoot ==
    /\ OnDisk(current_manifest).kind # "absent"
    /\ OnDisk(current_manifest).cfg = "Member"
    /\ OnDisk(current_manifest).hasPtr
    /\ OnDisk(PointerTarget(Parent(current_manifest))).kind # "absent"
    /\ OnDisk(PointerTarget(Parent(current_manifest))).cfg # "Root"

\* C14, as stated: when the entry's pointer resolves to an existing manifest
\* that is not a RootDeclaration, construction fails with NoRootConfigured.
C14_AsStated ==
    (PointsToNonRoot /\ Done) => result = "NoRootConfigured"

\* C14, amended: when the entry's pointer resolves to an existing manifest
\* that is not a RootDeclaration, construction fails in find_members with
\* "root of a workspace inferred but wasn't a root", with no member
\* discovered and before validate runs.
C14_PointerToNonRoot ==
    PointsToNonRoot =>
        /\ pc \in {"new", "find_members", "done"}
        /\ members = <<>>
        /\ pc # "new" => root_manifest = Some(PointerTarget(Parent(current_manifest)))
        /\ Done => result = "InferredNotRoot"

\* construction has failed on a pointer to a manifest that is not a root
C14_Witness ==
    /\ PointsToNonRoot /\ Done
    /\ result = "InferredNotRoot"
    /\ errInfo = <<PointerTarget(Parent(current_manifest))>>

-----------------------------------------------------------------------------
(* C15 *)

\* the entry's directory is the root directory or below it
EntryBelowRoot ==
    /\ root_manifest.some
    /\ Len(Parent(root_manifest.path)) <= Len(Parent(current_manifest))
    /\ SubSeq(Parent(current_manifest), 1, Len(Parent(root_manifest.path)))
           = Parent(root_manifest.path)

\* the root is a concrete package whose [workspace] has no members key
ConcreteRootWithoutMembers ==
    /\ OnDisk(root_manifest.path).kind = "Package"
    /\ ~OnDisk(root_manifest.path).hasMembers

\* the error suggests adding the entry's path relative to the root directory
SuggestsRelativePath ==
    /\ errHint = "add_relative_path"
    /\ Len(errInfo) = 3
    /\ errInfo[2] = root_manifest.path
    /\ Parent(current_manifest) = Parent(root_manifest.path) \o errInfo[3]

\* C15, as stated: when construction fails with NotAMember and the entry's
\* directory is below the root directory, the suggested fix is the entry's
\* relative path, for every kind of root.
C15_AsStated ==
    (Done /\ result = "NotAMember" /\ EntryBelowRoot) => SuggestsRelativePath

\* C15, amended: when construction fails with NotAMember, the suggested fix
\* is to have the root depend on the entry when the root is a concrete
\* package without a members list; otherwise it is the entry's path relative
\* to the root directory when the entry's directory is below the root
\* directory, and adding some member when it is not.
C15_NotAMemberHint ==
    (Done /\ result = "NotAMember") =>
        IF ConcreteRootWithoutMembers THEN errHint = "depend_on_it"
        ELSE IF EntryBelowRoot THEN SuggestsRelativePath
        ELSE errHint = "add_a_member"

\* the relative path was suggested for an entry below the root
C15_Witness ==
    /\ Done /\ result = "NotAMember" /\ EntryBelowRoot
    /\ ~ConcreteRootWithoutMembers
    /\ SuggestsRelativePath /\ errInfo[3] # <<>>

-----------------------------------------------------------------------------
(* C16 *)

\* the literal paths root/pattern of the root's explicit member patterns
\* whose glob expansion matches no path
Unmatched ==
    IF IsRootOnDisk(root_manifest) /\ OnDisk(root_manifest.path).hasMembers
    THEN LET root == Parent(root_manifest.path)
             list == OnDisk(root_manifest.path).members
         IN  {Join(root, list[i]) :
                 i \in {j \in 1..Len(list) :
                           expand_member_path(Join(root, list[j])) = <<>>}}
    ELSE {}

\* C16: when find_members expands the member patterns, each pattern whose
\* glob expansion matches no path is handed to find_path_deps as the literal
\* path root/pattern with Cargo.toml joined, and construction then fails with
\* a manifest load error instead of returning a workspace.
C16_UnmatchedPatternKept ==
    [][Unmatched # {} =>
          /\ pc = "find_members" =>
                 /\ pc' = "find_path_deps"
                 /\ ~stack'[1].dep
                 /\ \A path \in Unmatched :
                        Join(path, <<ManifestFile>>) \in Range(stack'[1].items)
          /\ Done' => result' = "ManifestIoError"]_vars

\* construction failed on loading the manifest of an unmatched pattern
C16_Witness ==
    /\ Done /\ result = "ManifestIoError"
    /\ \E path \in Unmatched :
           errInfo = <<NormalizePath(Join(path, <<ManifestFile>>))>>

-----------------------------------------------------------------------------
(* C17 *)

\* C17: a workspace returned by Workspace::ephemeral has no root, the
\* package's manifest path as its only member, a cache of exactly one record
\* (the package, under its directory), is_ephemeral set, and no manifest was
\* read; no discovery or validation step was taken.
C17_EphemeralUntouched ==
    Returned =>
        /\ is_ephemeral
        /\ root_manifest = None
        /\ members = <<current_manifest>>
        /\ DOMAIN packages = {Parent(current_manifest)}
        /\ packages[Parent(current_manifest)] \in EphemeralPackages
        /\ readLog = <<>>
        /\ stack = <<>> /\ vidx = 0

\* an ephemeral workspace of a package that differs from the manifest on
\* disk at its path
C17_Witness ==
    /\ Returned /\ is_ephemeral
    /\ members = <<current_manifest>>
    /\ packages[Parent(current_manifest)] # OnDisk(current_manifest)
    /\ OnDisk(current_manifest).cfg = "Member"
    /\ \E a \in Above(current_manifest) : HasManifest(a) /\ fs[a].cfg = "Root"

-----------------------------------------------------------------------------
(* C18 *)

\* directory a holds a RootDeclaration that does not exclude manifest_path
Accepting(a, manifest_path) ==
    /\ HasManifest(a) /\ fs[a].cfg = "Root"
    /\ ~UnderExcludeOnly(fs[a], a, manifest_path)

\* directory a holds a RootDeclaration whose exclude list covers
\* manifest_path and whose explicit members do not
Excluding(a, manifest_path) ==
    /\ HasManifest(a) /\ fs[a].cfg = "Root"
    /\ UnderExcludeOnly(fs[a], a, manifest_path)

\* the climb from the manifest of d reaches the k-th directory above it
Reaches(anc, k, manifest_path) ==
    \A j \in 1..(k - 1) : Skipped(anc[j], manifest_path)

-----------------------------------------------------------------------------
(* C19 *)

\* directory x is not nested under the workspace root directory and the
\* root recomputed for its manifest, "no root" included, is not the
\* workspace root
Foreign(x) ==
    /\ LET root == Parent(root_manifest.path) IN
       ~(Len(root) <= Len(x) /\ SubSeq(x, 1, Len(root)) = root)
    /\ FreshRoot(ManifestOf(x)) # root_manifest

\* the i-th member of list mem is the root, is named by an explicit member
\* pattern of the root, or is a path dependency, not a foreign one, of a
\* package earlier in the list
ReachedWithoutForeign(mem, i) ==
    \/ mem[i] = root_manifest.path
    \/ mem[i] \in NamedByRoot
    \/ /\ Parent(mem[i]) \in Dirs
       /\ ~Foreign(Parent(mem[i]))
       /\ \E j \in 1..(i - 1) :
              /\ OnDisk(mem[j]).kind = "Package"
              /\ Parent(mem[i]) \in Range(OnDisk(mem[j]).deps)

\* C19: a find_path_deps call on a path dependency that is not nested under
\* the workspace root directory and whose recomputed root is not the
\* workspace root leaves the member list as it is and opens no loop over
\* candidates; and every member is reached from the root without passing
\* through such a dependency.
C19_ForeignDependencySkipped ==
    [][/\ pc = "find_path_deps" =>
              LET top == stack[Len(stack)]
                  path == NormalizePath(Head(top.items))
              IN  (/\ top.dep /\ Parent(path) \in Dirs /\ Foreign(Parent(path))
                   /\ find_root(packages, readLog, path).err = "") =>
                      /\ members' = members
                      /\ Len(stack') <= Len(stack)
                      /\ result' = "running"
       /\ root_manifest.some =>
              \A i \in 1..Len(members') : ReachedWithoutForeign(members', i)]_vars

\* a workspace returned without the foreign dependency of a member and
\* without the manifest below the root that only this dependency leads to
C19_Witness ==
    /\ Returned /\ root_manifest.some
    /\ \E m \in MemberSet : \E x \in Range(OnDisk(m).deps) :
          /\ HasManifest(x) /\ Foreign(x) /\ FreshRoot(ManifestOf(x)) = None
          /\ ManifestOf(x) \notin MemberSet
          /\ \E y \in Range(fs[x].deps) :
                /\ HasManifest(y) /\ ~Foreign(y)
                /\ ManifestOf(y) \notin MemberSet

-----------------------------------------------------------------------------
(* C20 *)

\* the root's exclude list covers the manifest and its explicit members do not
ExcludedByRoot(manifest_path) ==
    /\ OnDisk(root_manifest.path).cfg = "Root"
    /\ UnderExcludeOnly(OnDisk(root_manifest.path), Parent(root_manifest.path),
                        manifest_path)

\* the path dependencies of the package at a manifest, as manifests
DepManifests(manifest_path) ==
    IF OnDisk(manifest_path).kind = "Package"
    THEN [i \in 1..Len(OnDisk(manifest_path).deps) |->
             ManifestOf(OnDisk(manifest_path).deps[i])]
    ELSE <<>>

RECURSIVE FirstVisits(_, _, _)
\* the list `visited` after a depth-first walk of the manifests `todo` in
\* order, each followed by its path dependencies before the next
FirstVisits(visited, todo, dep) ==
    IF todo = <<>> THEN visited
    ELSE LET path == NormalizePath(Head(todo)) IN
         IF \/ path \in Range(visited)
            \/ dep /\ Parent(path) \in Dirs /\ Foreign(Parent(path))
            \/ ExcludedByRoot(path)
         THEN FirstVisits(visited, Tail(todo), dep)
         ELSE FirstVisits(FirstVisits(Append(visited, path), DepManifests(path), TRUE),
                          Tail(todo), dep)

\* the order of first visit: each explicit member pattern in declaration
\* order with its path dependencies depth-first, then the root manifest
FirstVisitOrder ==
    LET root == Parent(root_manifest.path)
        list == IF OnDisk(root_manifest.path).hasMembers
                THEN ExpandedList(root, OnDisk(root_manifest.path).members)
                ELSE <<>>
    IN  FirstVisits(<<>>,
                    [i \in 1..Len(list) |-> Join(list[i], <<ManifestFile>>)]
                        \o <<root_manifest.path>>,
                    FALSE)

-----------------------------------------------------------------------------
(* C21 *)

\* every path of the member list has a record in the cache
MembersCached == \A i \in 1..Len(members) : Parent(members[i]) \in DOMAIN packages

\* the records of the concrete packages of the member list, in its order
ConcreteMembers ==
    LET IsConcrete(path) == packages[Parent(path)].kind = "Package"
        concrete == SelectSeq(members, IsConcrete)
    IN  [i \in 1..Len(concrete) |-> packages[Parent(concrete[i])]]

\* C21: a find_path_deps call that reaches a virtual manifest which is not
\* yet a member, not excluded and not a foreign dependency appends it and
\* opens no loop over candidates; members() hands out exactly the concrete
\* packages of the member list, in its order; is_empty answers true exactly
\* when the member list holds no concrete package.
C21_VirtualKeptNotYielded ==
    [][/\ pc = "find_path_deps" =>
              LET top == stack[Len(stack)]
                  path == NormalizePath(Head(top.items))
              IN  (/\ OnDisk(path).kind = "Virtual"
                   /\ path \notin Range(members)
                   /\ ~(top.dep /\ Foreign(Parent(path)))
                   /\ ~ExcludedByRoot(path)) =>
                      /\ members' = Append(members, path)
                      /\ Len(stack') <= Len(stack)
                      /\ result' = "running"
       /\ observed'.call = "members" =>
              /\ MembersCached
              /\ ~observed'.panic
              /\ observed'.items = ConcreteMembers
       /\ observed'.call = "is_empty" =>
              /\ MembersCached
              /\ ~observed'.panic
              /\ observed'.empty = (ConcreteMembers = <<>>)]_vars

\* members() went over a list that holds a virtual manifest next to
\* concrete packages and handed out the packages only
C21_Witness ==
    /\ Returned /\ observed.call = "members"
    /\ observed.items = ConcreteMembers
    /\ Len(observed.items) >= 2
    /\ \E i \in 1..Len(members) : OnDisk(members[i]).kind = "Virtual"

-----------------------------------------------------------------------------
(* C22 *)

\* Packages::load has read the manifest from disk and the cache holds what
\* was read
LoadedSuccessfully(manifest_path) ==
    /\ CanGet(packages, manifest_path)
    /\ CanRead(manifest_path)
    /\ Parent(manifest_path) \in Range(readLog)
    /\ Get(packages, manifest_path) = fs[Parent(manifest_path)]

\* the manifests the accessors and validate hand to Packages::get
GetTargets ==
    {current_manifest} \cup Range(members)
        \cup (IF root_manifest.some THEN {root_manifest.path} ELSE {})

\* C22: Packages::get is never called on a directory absent from the cache.
\* From the moment validation starts, the entry manifest, the root manifest
\* and every path of the member list have been loaded successfully; no get
\* of validate panics, and no get of current_opt, profiles, root_replace or
\* the members() iterator (is_empty included) panics on the workspace that
\* Workspace::new returned.
C22_GetNeverAbsent ==
    /\ result # "Panic"
    /\ ~observed.panic
    /\ Discovered => \A manifest_path \in GetTargets :
                         LoadedSuccessfully(manifest_path)

\* profiles() or root_replace() asked Packages::get for a root manifest
\* that is not the entry, in a workspace of several members, and got the
\* root's record
C22_Witness ==
    /\ Returned
    /\ observed.call \in {"profiles", "root_replace"}
    /\ root_manifest.some /\ root_manifest.path # current_manifest
    /\ Len(members) >= 2
    /\ ~observed.panic
    /\ observed.items = <<fs[Parent(root_manifest.path)]>>

=============================================================================
